---- MODULE Spec2Model ----
(***************************************************************************)
(* Model of src/image_generator/generate_image.py: a one-shot command-line *)
(* compositor.  main() reads a JSON job, fetches the background with an    *)
(* HTTP GET, optionally resolves a foreground (URL or local path), resizes *)
(* it to 250x250, pastes it at (40,40) and saves the result.               *)
(*                                                                         *)
(* Strings are sequences of one-character strings so that startswith and   *)
(* substring tests are computed.  In-memory images are expression trees    *)
(* (decoded / resized / pasted) whose pixels are computed by GetPixel.     *)
(***************************************************************************)
EXTENDS Integers, Sequences, FiniteSets

(* ---------------- bounds of the model (not program constants) ---------- *)
MaxArgs == 4      \* positional arguments range over 0..MaxArgs
SmallSide == 30   \* side of a picture that lies wholly left of / above the paste offset
MidW == 100       \* width of a picture narrower than offset + target width
MidH == 60        \* height of a picture shorter than offset + target height
BigSide == 300    \* side of a picture that contains the whole paste region

(* ---------------- program constants ------------------------------------ *)
RequiredArgv == 3 \* len(sys.argv) != 3
TargetW == 250    \* resize((250, 250))
TargetH == 250
PasteX == 40      \* paste(user_img, (40, 40))
PasteY == 40
Opaque == 255     \* alpha of a mode without alpha band after convert("RGBA")
ErrorStatus == 400 \* raise_for_status raises for 4xx and 5xx

(* ---------------- strings ---------------------------------------------- *)
HttpPrefix == <<"h","t","t","p">>
SchemeHttp == <<"h","t","t","p",":","/","/">>
SchemeHttps == <<"h","t","t","p","s",":","/","/">>
UrlT == <<"h","t","t","p",":","/","/","t">>
UrlsU == <<"h","t","t","p","s",":","/","/","u">>
PathT == <<"t",".","p","n","g">>
PathU == <<"u",".","p","n","g">>
HttpDotPng == <<"h","t","t","p",".","p","n","g">>
Ht == <<"h","t">>
EmptyStr == << >>
UsageMsg == <<"U","s","a","g","e",":"," ","g","e","n","e","r","a","t","e","_","i","m","a","g","e",".","p","y"," ","i","n","p","u","t","_","j","s","o","n","_","p","a","t","h"," ","o","u","t","p","u","t","_","p","a","t","h">>
MissingMsg == <<"M","i","s","s","i","n","g"," ","t","e","m","p","l","a","t","e","_","u","r","l"," ","i","n"," ","i","n","p","u","t"," ","d","a","t","a">>
MissingTemplateUrl == <<"M","i","s","s","i","n","g"," ","t","e","m","p","l","a","t","e","_","u","r","l">>
UsageWord == <<"U","s","a","g","e">>

\* str.startswith
StartsWith(s, p) ==
    /\ Len(s) >= Len(p)
    /\ SubSeq(s, 1, Len(p)) = p

\* substring test (p in s)
Contains(s, p) ==
    \E i \in 1..(Len(s) - Len(p) + 1) : SubSeq(s, i, i + Len(p) - 1) = p

\* requests.get sends a request only for an http:// or https:// URL with a
\* host; any other string raises MissingSchema / InvalidSchema / InvalidURL
\* before anything is sent.
IsHttpUrl(s) ==
    \/ StartsWith(s, SchemeHttp) /\ Len(s) > Len(SchemeHttp)
    \/ StartsWith(s, SchemeHttps) /\ Len(s) > Len(SchemeHttps)

(* ---------------- JSON values and the job descriptor ------------------- *)
JNull == [t |-> "null", s |-> EmptyStr]
JStr(s) == [t |-> "str", s |-> s]

TemplateStrings == {EmptyStr, UrlT, PathT}
UserStrings == {EmptyStr, UrlT, UrlsU, PathU, HttpDotPng, Ht}

\* a JSON object is a function from the keys it holds to their values
JobObjects ==
    { [k \in ks |-> IF k = "template_url" THEN tv ELSE uv] :
        ks \in SUBSET {"template_url", "user_image_path"},
        tv \in {JNull} \cup {JStr(s) : s \in TemplateStrings},
        uv \in {JNull} \cup {JStr(s) : s \in UserStrings} }

\* what the file at sys.argv[1] holds
InputFiles ==
    {[kind |-> "missing", obj |-> << >>], [kind |-> "malformed", obj |-> << >>]}
      \cup {[kind |-> "object", obj |-> o] : o \in JobObjects}

\* dict.get(key): None for a missing key, and JSON null is None as well
DictGet(d, k) == IF k \in DOMAIN d THEN d[k] ELSE JNull

TruthyStrict(v) == v.t = "str"
\* Python truthiness of None / str
Truthy(v) == v.t = "str" /\ Len(v.s) > 0

ArgvLenOff(nargs) == nargs
\* len(sys.argv): the program name plus the positional arguments
ArgvLen(nargs) == nargs + 1

(* ---------------- pictures: what a URL or a file can hold -------------- *)
Pictures ==
    { [w |-> SmallSide, h |-> SmallSide, mode |-> "RGBA", seed |-> 0],
      [w |-> MidW,      h |-> MidH,      mode |-> "RGB",  seed |-> 1],
      [w |-> BigSide,   h |-> BigSide,   mode |-> "L",    seed |-> 2],
      [w |-> BigSide,   h |-> SmallSide, mode |-> "RGBA", seed |-> 1],
      [w |-> 2,         h |-> 3,         mode |-> "RGBA", seed |-> 2] }

NoPicture == [w |-> 0, h |-> 0, mode |-> "none", seed |-> 0]
Garbage == [kind |-> "garbage", pic |-> NoPicture]
Bodies == {Garbage} \cup {[kind |-> "picture", pic |-> p] : p \in Pictures}

\* the stored pixel of a picture, in the picture's own mode
Shade(pic, x, y) == ((x + 2 * y + pic.seed) % 3) * 100
AlphaAt(pic, x, y) ==
    LET k == (x + y + pic.seed) % 3
    IN  IF k = 0 THEN 0 ELSE IF k = 1 THEN 128 ELSE Opaque
RawPixel(pic, x, y) ==
    IF pic.mode = "L" THEN << Shade(pic, x, y) >>
    ELSE IF pic.mode = "RGB"
         THEN << Shade(pic, x, y), Shade(pic, y, x), Shade(pic, x + 1, y) >>
         ELSE << Shade(pic, x, y), Shade(pic, y, x), Shade(pic, x + 1, y),
                 AlphaAt(pic, x, y) >>

\* Image.convert("RGBA") on one pixel
ConvertPixelRGBA(mode, p) ==
    IF mode = "L" THEN << p[1], p[1], p[1], Opaque >>
    ELSE IF mode = "RGB" THEN << p[1], p[2], p[3], Opaque >>
    ELSE p

(* ---------------- in-memory images ------------------------------------- *)
NoImage == [kind |-> "none"]

\* Image.open(...).convert("RGBA")
ConvertRGBA(pic) ==
    [kind |-> "decoded", w |-> pic.w, h |-> pic.h, pic |-> pic]

\* Image.resize((w, h)): a new image of exactly that size, stretched
\* (sampled here at the nearest source pixel)
Resize(img, w, h) ==
    [kind |-> "resized", w |-> w, h |-> h, of |-> img]

PasteGrow(bg, fg, ox, oy) ==
    [kind |-> "pasted",
     w |-> IF ox + fg.w > bg.w THEN ox + fg.w ELSE bg.w,
     h |-> IF oy + fg.h > bg.h THEN oy + fg.h ELSE bg.h,
     base |-> bg, top |-> fg, ox |-> ox, oy |-> oy]
\* Image.paste(im, (ox, oy)) with no mask: the destination keeps its size
Paste(bg, fg, ox, oy) ==
    [kind |-> "pasted", w |-> bg.w, h |-> bg.h,
     base |-> bg, top |-> fg, ox |-> ox, oy |-> oy]

CoversUnbounded(img, x, y) ==
    /\ x >= img.ox
    /\ y >= img.oy
\* the box written by paste: the source rectangle at the offset (callers
\* only ask for coordinates inside the destination, which is the clipping)
Covers(img, x, y) ==
    /\ x >= img.ox /\ x < img.ox + img.top.w
    /\ y >= img.oy /\ y < img.oy + img.top.h

RECURSIVE GetPixel(_, _, _)
GetPixel(img, x, y) ==
    IF img.kind = "decoded"
      THEN ConvertPixelRGBA(img.pic.mode, RawPixel(img.pic, x, y))
    ELSE IF img.kind = "resized"
      THEN GetPixel(img.of, (x * img.of.w) \div img.w, (y * img.of.h) \div img.h)
    ELSE IF Covers(img, x, y)
      THEN GetPixel(img.top, x - img.ox, y - img.oy)
      ELSE GetPixel(img.base, x, y)

Alpha(p) == p[4]
Coords(img) == (0..(img.w - 1)) \X (0..(img.h - 1))

(* ---------------- resolving a locator ---------------------------------- *)
HttpStatuses == {200, 404}

NeverRaises(status) == FALSE
\* Response.raise_for_status(): HTTPError for a 4xx or 5xx status
RaiseForStatus(status) == status >= ErrorStatus

Outcome(op, loc, sent, status, result, img) ==
    [op |-> op, loc |-> loc, sent |-> sent, status |-> status,
     result |-> result, img |-> img]

\* Image.open(bytes or file).convert("RGBA")
Decode(op, loc, sent, status, body) ==
    IF body.kind = "garbage"
      THEN Outcome(op, loc, sent, status, "UnidentifiedImageError", NoImage)
      ELSE Outcome(op, loc, sent, status, "ok", ConvertRGBA(body.pic))

\* load_image_from_url(url): every way the call can end
LoadImageFromUrl(url) ==
    IF ~IsHttpUrl(url)
      THEN { Outcome("get", url, FALSE, 0, "MissingSchema", NoImage) }
      ELSE { Outcome("get", url, TRUE, 0, "ConnectionError", NoImage) }
           \cup
           { IF RaiseForStatus(st)
               THEN Outcome("get", url, TRUE, st, "HTTPError", NoImage)
               ELSE Decode("get", url, TRUE, st, body) :
             st \in HttpStatuses, body \in Bodies }

\* Image.open(path).convert("RGBA") on a local path
OpenLocal(path) ==
    { Outcome("open", path, FALSE, 0, "FileNotFoundError", NoImage) }
    \cup { Decode("open", path, FALSE, 0, body) : body \in Bodies }

LoadAlwaysFromUrl(path_or_url) == LoadImageFromUrl(path_or_url)
\* load_image_from_path_or_url(path_or_url)
LoadImageFromPathOrUrl(path_or_url) ==
    IF StartsWith(path_or_url, HttpPrefix)
      THEN LoadImageFromUrl(path_or_url)
      ELSE OpenLocal(path_or_url)

(* ---------------- state ------------------------------------------------ *)
VARIABLES
    nargs,            \* number of positional arguments on the command line
    inputFile,        \* what the file named by sys.argv[1] holds
    pc,               \* position of main()
    exitStatus,       \* process exit status, -1 while running
    raised,           \* the uncaught exception that ended the run, or "none"
    printed,          \* messages written by print()
    jsonOpened,       \* open(sys.argv[1]) has been called
    assigned,         \* names of the locals of main() bound so far
    data,             \* json.load(f)
    template_url,     \* data.get('template_url')
    user_image_path,  \* data.get('user_image_path')
    image,            \* the background, mutated by paste
    user_img,         \* the resized foreground
    io,               \* requests.get / Image.open(path) calls, in order
    background,       \* history: the value load_image_from_url returned
    pasted,           \* history: image.paste has returned
    outFile           \* the image at output_path, NoImage while absent

vars == << nargs, inputFile, pc, exitStatus, raised, printed, jsonOpened,
           assigned, data, template_url, user_image_path, image, user_img,
           io, background, pasted, outFile >>

Init ==
    /\ nargs \in 0..MaxArgs
    /\ inputFile \in InputFiles
    /\ pc = "check_args"
    /\ exitStatus = -1
    /\ raised = "none"
    /\ printed = << >>
    /\ jsonOpened = FALSE
    /\ assigned = {}
    /\ data = << >>
    /\ template_url = JNull
    /\ user_image_path = JNull
    /\ image = NoImage
    /\ user_img = NoImage
    /\ io = << >>
    /\ background = NoImage
    /\ pasted = FALSE
    /\ outFile = NoImage

\* sys.exit(status)
SysExit(status) ==
    /\ pc' = "exited"
    /\ exitStatus' = status
    /\ raised' = "none"

\* an exception nobody catches: traceback, exit status 1
Uncaught(exc) ==
    /\ pc' = "exited"
    /\ exitStatus' = 1
    /\ raised' = exc

Goto(next) ==
    /\ pc' = next
    /\ UNCHANGED << exitStatus, raised >>

\* lines 19-21
CheckArgs ==
    /\ pc = "check_args"
    /\ IF ArgvLen(nargs) # RequiredArgv
         THEN /\ printed' = Append(printed, UsageMsg)
              /\ SysExit(1)
         ELSE /\ Goto("load_json")
              /\ UNCHANGED printed
    /\ UNCHANGED << nargs, inputFile, jsonOpened, assigned, data,
                    template_url, user_image_path, image, user_img, io,
                    background, pasted, outFile >>

\* lines 23-25
LoadJson ==
    /\ pc = "load_json"
    /\ IF inputFile.kind = "missing"
         THEN /\ Uncaught("FileNotFoundError")
              /\ UNCHANGED << jsonOpened, assigned, data >>
         ELSE IF inputFile.kind = "malformed"
         THEN /\ Uncaught("JSONDecodeError")
              /\ jsonOpened' = TRUE
              /\ UNCHANGED << assigned, data >>
         ELSE /\ Goto("get_template_url")
              /\ jsonOpened' = TRUE
              /\ data' = inputFile.obj
              /\ assigned' = assigned \cup {"data", "output_path"}
    /\ UNCHANGED << nargs, inputFile, printed, template_url, user_image_path,
                    image, user_img, io, background, pasted, outFile >>

GetTemplateUrlNoCheck ==
    /\ pc = "get_template_url"
    /\ template_url' = DictGet(data, "template_url")
    /\ assigned' = assigned \cup {"template_url"}
    /\ IF Truthy(template_url')
         THEN Goto("load_background") /\ UNCHANGED printed
         ELSE Goto("get_user_image_path")
              /\ printed' = Append(printed, MissingMsg)
    /\ UNCHANGED << nargs, inputFile, jsonOpened, data, user_image_path,
                    image, user_img, io, background, pasted, outFile >>
\* lines 28-31
GetTemplateUrl ==
    /\ pc = "get_template_url"
    /\ template_url' = DictGet(data, "template_url")
    /\ assigned' = assigned \cup {"template_url"}
    /\ IF ~Truthy(template_url')
         THEN /\ printed' = Append(printed, MissingMsg)
              /\ SysExit(1)
         ELSE /\ Goto("load_background")
              /\ UNCHANGED printed
    /\ UNCHANGED << nargs, inputFile, jsonOpened, data, user_image_path,
                    image, user_img, io, background, pasted, outFile >>

Event(role, o) ==
    [role |-> role, op |-> o.op, loc |-> o.loc, sent |-> o.sent,
     status |-> o.status, result |-> o.result]

LoadBackgroundRetry ==
    /\ pc = "load_background"
    /\ \E o \in LoadImageFromUrl(template_url.s) :
         /\ io' = Append(io, Event("background", o))
         /\ IF o.result = "ok"
              THEN /\ Goto("get_user_image_path")
                   /\ image' = o.img
                   /\ background' = o.img
                   /\ assigned' = assigned \cup {"image"}
              ELSE /\ IF Len(io) = 0
                        THEN Goto("load_background")
                        ELSE Uncaught(o.result)
                   /\ UNCHANGED << image, background, assigned >>
    /\ UNCHANGED << nargs, inputFile, printed, jsonOpened, data, template_url,
                    user_image_path, user_img, pasted, outFile >>
\* line 33: image = load_image_from_url(template_url)
LoadBackground ==
    /\ pc = "load_background"
    /\ \E o \in LoadImageFromUrl(template_url.s) :
         /\ io' = Append(io, Event("background", o))
         /\ IF o.result = "ok"
              THEN /\ Goto("get_user_image_path")
                   /\ image' = o.img
                   /\ background' = o.img
                   /\ assigned' = assigned \cup {"image"}
              ELSE /\ Uncaught(o.result)
                   /\ UNCHANGED << image, background, assigned >>
    /\ UNCHANGED << nargs, inputFile, printed, jsonOpened, data, template_url,
                    user_image_path, user_img, pasted, outFile >>

GetUserImagePathWrongKey ==
    /\ pc = "get_user_image_path"
    /\ user_image_path' = DictGet(data, "template_url")
    /\ assigned' = assigned \cup {"user_image_path"}
    /\ IF Truthy(user_image_path')
         THEN Goto("load_foreground")
         ELSE Goto("save")
    /\ UNCHANGED << nargs, inputFile, printed, jsonOpened, data, template_url,
                    image, user_img, io, background, pasted, outFile >>
\* lines 35-36
GetUserImagePath ==
    /\ pc = "get_user_image_path"
    /\ user_image_path' = DictGet(data, "user_image_path")
    /\ assigned' = assigned \cup {"user_image_path"}
    /\ IF Truthy(user_image_path')
         THEN Goto("load_foreground")
         ELSE Goto("save")
    /\ UNCHANGED << nargs, inputFile, printed, jsonOpened, data, template_url,
                    image, user_img, io, background, pasted, outFile >>

\* line 37: user_img = load_image_from_path_or_url(user_image_path).resize((250, 250))
LoadForeground ==
    /\ pc = "load_foreground"
    /\ \E o \in LoadImageFromPathOrUrl(user_image_path.s) :
         /\ io' = Append(io, Event("foreground", o))
         /\ IF o.result = "ok"
              THEN /\ Goto("paste")
                   /\ user_img' = Resize(o.img, TargetW, TargetH)
                   /\ assigned' = assigned \cup {"user_img"}
              ELSE /\ Uncaught(o.result)
                   /\ UNCHANGED << user_img, assigned >>
    /\ UNCHANGED << nargs, inputFile, printed, jsonOpened, data, template_url,
                    user_image_path, image, background, pasted, outFile >>

\* line 38: image.paste(user_img, (40, 40))
PasteForeground ==
    /\ pc = "paste"
    /\ image' = Paste(image, user_img, PasteX, PasteY)
    /\ pasted' = TRUE
    /\ Goto("save")
    /\ UNCHANGED << nargs, inputFile, printed, jsonOpened, assigned, data,
                    template_url, user_image_path, user_img, io, background,
                    outFile >>

\* line 43: image.save(output_path); the encoder can refuse (unwritable
\* path, a format that cannot hold RGBA), and then no file is left behind
Save ==
    /\ pc = "save"
    /\ \E ok \in BOOLEAN :
         IF ok
           THEN /\ outFile' = image
                /\ SysExit(0)
           ELSE /\ Uncaught("OSError")
                /\ UNCHANGED outFile
    /\ UNCHANGED << nargs, inputFile, printed, jsonOpened, assigned, data,
                    template_url, user_image_path, image, user_img, io,
                    background, pasted >>

Next ==
    \/ CheckArgs
    \/ LoadJson
    \/ GetTemplateUrl
    \/ LoadBackground
    \/ GetUserImagePath
    \/ LoadForeground
    \/ PasteForeground
    \/ Save

Spec == Init /\ [][Next]_vars

TypeOK ==
    /\ nargs \in 0..MaxArgs
    /\ pc \in {"check_args", "load_json", "get_template_url", "load_background",
               "get_user_image_path", "load_foreground", "paste", "save", "exited"}
    /\ exitStatus \in {-1, 0, 1}
    /\ (pc = "exited") <=> (exitStatus # -1)
    /\ Len(io) <= 2

(* ---------------- helpers for the properties --------------------------- *)
\* the region with top-left (PasteX, PasteY) and size TargetW x TargetH
InRegion(x, y) ==
    /\ x >= PasteX /\ x < PasteX + TargetW
    /\ y >= PasteY /\ y < PasteY + TargetH

\* the image a reader of output_path gets, or the one about to be saved
Output == IF outFile # NoImage THEN outFile ELSE image

JobRead == "data" \in assigned
HasKey(k) == JobRead /\ k \in DOMAIN data
Events(role) == { i \in DOMAIN io : io[i].role = role }
Printed(word) == \E i \in DOMAIN printed : Contains(printed[i], word)

(* ---------------- C1 --------------------------------------------------- *)
\* C1 (as claimed): after the paste, every background pixel under a fully
\* transparent (alpha = 0) foreground pixel still has its background value,
\* and every background pixel under a fully opaque foreground pixel has the
\* foreground pixel's value.
C1_AlphaMaskPaste ==
    pasted =>
      \A xy \in Coords(background) :
        InRegion(xy[1], xy[2]) =>
          LET f == GetPixel(user_img, xy[1] - PasteX, xy[2] - PasteY)
          IN  /\ Alpha(f) = 0 =>
                   GetPixel(Output, xy[1], xy[2]) = GetPixel(background, xy[1], xy[2])
              /\ Alpha(f) = Opaque =>
                   GetPixel(Output, xy[1], xy[2]) = f

(* ---------------- C2 --------------------------------------------------- *)
\* C2: after the paste the image (and the saved output) has the width and
\* height of the background, and every pixel at a coordinate outside the
\* 250x250 region at (40,40) equals the pixel of the RGBA-converted
\* background at that coordinate.
C2_OutsideRegionUnchanged ==
    pasted =>
      /\ Output.w = background.w
      /\ Output.h = background.h
      /\ \A xy \in Coords(Output) :
           ~InRegion(xy[1], xy[2]) =>
             GetPixel(Output, xy[1], xy[2]) = GetPixel(background, xy[1], xy[2])

\* a saved composite whose background has pixels on every side of the region
C2_Witness ==
    /\ pc = "exited" /\ exitStatus = 0 /\ pasted
    /\ outFile.w > PasteX + TargetW
    /\ outFile.h > PasteY + TargetH

(* ---------------- C3 --------------------------------------------------- *)
\* C3: when the job has a template_url and no user_image_path key, no
\* foreground is resolved, nothing is pasted, and the image saved at the
\* output path has the background's size and pixels.
JobHasOnlyTemplate ==
    /\ JobRead
    /\ Truthy(DictGet(data, "template_url"))
    /\ "user_image_path" \notin DOMAIN data

C3_TemplateOnlyOutput ==
    JobHasOnlyTemplate =>
      /\ Events("foreground") = {}
      /\ user_img = NoImage
      /\ ~pasted
      /\ pc \notin {"load_foreground", "paste"}
      /\ outFile # NoImage =>
           /\ outFile.w = background.w
           /\ outFile.h = background.h
           /\ \A xy \in Coords(background) :
                GetPixel(outFile, xy[1], xy[2]) =
                  ConvertPixelRGBA(background.pic.mode,
                                   RawPixel(background.pic, xy[1], xy[2]))

C3_Witness ==
    /\ JobHasOnlyTemplate
    /\ pc = "exited" /\ exitStatus = 0
    /\ outFile # NoImage

(* ---------------- C4 --------------------------------------------------- *)
\* C4 (as claimed): every locator that is resolved, background or
\* foreground, goes to an HTTP GET when it starts with 'http' and is opened
\* as a local path, with no network request, when it does not.
C4_EveryLocatorClassified ==
    \A i \in DOMAIN io :
      IF StartsWith(io[i].loc, HttpPrefix)
        THEN io[i].op = "get"
        ELSE io[i].op = "open" /\ ~io[i].sent

\* C4 (amended): only the foreground locator is classified by its prefix
\* ('http' -> HTTP GET, anything else -> opened as a local path, nothing
\* sent); the background locator always goes to an HTTP GET, whatever its
\* prefix, and is never opened as a local path.  Every image obtained is
\* RGBA (four channels per pixel).
C4_ForegroundClassified ==
    /\ \A i \in Events("foreground") :
         IF StartsWith(io[i].loc, HttpPrefix)
           THEN io[i].op = "get"
           ELSE io[i].op = "open" /\ ~io[i].sent
    /\ \A i \in Events("background") : io[i].op = "get"
    /\ \A i \in DOMAIN io : io[i].sent => io[i].op = "get"
    /\ pc = "get_user_image_path" =>
         \A xy \in Coords(image) : Len(GetPixel(image, xy[1], xy[2])) = 4
    /\ pc = "paste" =>
         \A xy \in Coords(user_img) : Len(GetPixel(user_img, xy[1], xy[2])) = 4

\* a foreground given as a local path was opened from the filesystem after
\* the background was fetched over HTTP
C4_Witness ==
    /\ Len(io) = 2
    /\ io[1].role = "background" /\ io[1].op = "get" /\ io[1].sent
    /\ io[2].role = "foreground" /\ io[2].op = "open" /\ io[2].result = "ok"
    /\ ~StartsWith(io[2].loc, HttpPrefix)

(* ---------------- C5 --------------------------------------------------- *)
\* C5: when the job has no template_url key, main stops at the check: it
\* prints a message containing "Missing template_url", exits with status 1,
\* and no request was made, user_image_path was never read and no output
\* file was written.
C5_MissingTemplateUrl ==
    (JobRead /\ "template_url" \notin DOMAIN data) =>
      /\ io = << >>
      /\ "user_image_path" \notin assigned
      /\ outFile = NoImage
      /\ pc \in {"get_template_url", "exited"}
      /\ pc = "exited" =>
           /\ exitStatus = 1
           /\ raised = "none"
           /\ Printed(MissingTemplateUrl)

C5_Witness ==
    /\ JobRead /\ "template_url" \notin DOMAIN data
    /\ pc = "exited"

(* ---------------- C6 --------------------------------------------------- *)
\* C6: with a number of positional arguments other than two, main prints
\* the usage message and exits with status 1 without opening the JSON
\* file, making a request or writing output; with exactly two arguments no
\* usage message is ever printed.
C6_UsageError ==
    /\ nargs # 2 =>
         /\ ~jsonOpened
         /\ io = << >>
         /\ outFile = NoImage
         /\ pc \in {"check_args", "exited"}
         /\ pc = "exited" =>
              /\ exitStatus = 1
              /\ raised = "none"
              /\ Printed(UsageWord)
    /\ nargs = 2 => ~Printed(UsageWord)

C6_Witness ==
    /\ nargs > 2
    /\ pc = "exited"
    /\ printed # << >>

(* ---------------- C7 --------------------------------------------------- *)
\* C7: once a resolution step has failed (an HTTP error status came back,
\* a local file was missing, bytes did not decode), the process has ended
\* with a non-zero exit status and there is no output file; an output file
\* exists only when every earlier step succeeded.
ResolutionFailed(e) ==
    \/ e.status >= 400
    \/ e.result \in {"FileNotFoundError", "UnidentifiedImageError"}

C7_NoOutputAfterFailure ==
    /\ (\E i \in DOMAIN io : ResolutionFailed(io[i])) =>
         /\ pc = "exited"
         /\ exitStatus # 0
         /\ outFile = NoImage
    /\ outFile # NoImage =>
         /\ \A i \in DOMAIN io : io[i].result = "ok"
         /\ background # NoImage
         /\ Truthy(user_image_path) => (user_img # NoImage /\ pasted)
         /\ raised = "none"

\* the foreground fetch came back with an HTTP error status after the
\* background had been fetched
C7_Witness ==
    /\ Len(io) = 2
    /\ io[2].role = "foreground" /\ io[2].status >= 400
    /\ pc = "exited"

(* ---------------- C8 --------------------------------------------------- *)
\* C8: whatever the background's size, the paste raises nothing: once a
\* foreground has been resolved the run reaches the save with the paste
\* done, the image keeps the background's width and height, every pixel of
\* the region that lies inside the background holds the foreground pixel
\* (the rest of the foreground is dropped), and the run exits with status 0
\* with the image saved unless the save itself fails.
C8_PasteClips ==
    /\ (user_img # NoImage /\ pc \in {"save", "exited"}) =>
         /\ pasted
         /\ raised \in {"none", "OSError"}
    /\ pasted =>
         /\ image.w = background.w
         /\ image.h = background.h
         /\ \A xy \in Coords(image) :
              InRegion(xy[1], xy[2]) =>
                GetPixel(image, xy[1], xy[2]) =
                  GetPixel(user_img, xy[1] - PasteX, xy[2] - PasteY)
    /\ (pasted /\ pc = "exited" /\ raised = "none") =>
         /\ exitStatus = 0
         /\ outFile = image

\* a saved composite on a background narrower and shorter than the region's
\* far corner, but reaching past the offset
C8_Witness ==
    /\ pasted /\ pc = "exited" /\ exitStatus = 0
    /\ background.w > PasteX /\ background.w < PasteX + TargetW
    /\ background.h > PasteY /\ background.h < PasteY + TargetH

(* ---------------- C9 --------------------------------------------------- *)
\* C9: the background is resolved first and once, the foreground is
\* resolved at most once and only after the background was resolved
\* successfully, at most two requests are made, nothing is requested after
\* a failure, and the output exists only once the run has ended.
C9_FixedOrder ==
    /\ Len(io) <= 2
    /\ Cardinality(Events("background")) <= 1
    /\ Cardinality(Events("foreground")) <= 1
    /\ Len(io) >= 1 => io[1].role = "background"
    /\ \A i \in Events("foreground") :
         /\ i = 2
         /\ io[1].result = "ok"
         /\ background # NoImage
    /\ \A i \in DOMAIN io : io[i].result # "ok" => i = Len(io) /\ pc = "exited"
    /\ outFile # NoImage => pc = "exited"
    /\ pc \in {"paste", "save"} => outFile = NoImage

\* both locators were fetched over HTTP, one GET each, and the run saved
C9_Witness ==
    /\ Len(io) = 2
    /\ io[1].sent /\ io[2].sent
    /\ pc = "exited" /\ exitStatus = 0

(* ---------------- C10 -------------------------------------------------- *)
\* C10: a template_url key holding null or "" ends the run like a missing
\* key (message, exit status 1, nothing fetched, no output); a
\* user_image_path key holding null or "" is skipped like a missing key (no
\* foreground resolved, nothing pasted, no error from it, and the output is
\* the background).
Falsy == {JNull, JStr(EmptyStr)}

C10_TruthinessNotPresence ==
    /\ (HasKey("template_url") /\ data["template_url"] \in Falsy) =>
         /\ io = << >>
         /\ outFile = NoImage
         /\ pc \in {"get_template_url", "exited"}
         /\ pc = "exited" =>
              /\ exitStatus = 1
              /\ printed = << MissingMsg >>
    /\ (HasKey("user_image_path") /\ data["user_image_path"] \in Falsy) =>
         /\ Events("foreground") = {}
         /\ user_img = NoImage
         /\ ~pasted
         /\ pc \notin {"load_foreground", "paste"}
         /\ raised \in {"none", "OSError"} \cup
              (IF background = NoImage THEN {io[i].result : i \in DOMAIN io} ELSE {})
         /\ outFile # NoImage => outFile = background

\* a job whose user_image_path is the empty string was saved
C10_Witness ==
    /\ HasKey("user_image_path") /\ data["user_image_path"] = JStr(EmptyStr)
    /\ pc = "exited" /\ exitStatus = 0
    /\ outFile # NoImage
====
